---------------------------- MODULE Spec2Model ----------------------------
(***************************************************************************)
(* The useListFilters hook of react-native-filter and the FilterUtils      *)
(* helpers it calls.                                                       *)
(*                                                                         *)
(* A React function component is re-run ("rendered") after its state was   *)
(* set.  The handlers a render returns close over the selectedIds value of *)
(* that render; setSelectedIds(value) only enqueues value, and the next    *)
(* render makes the last enqueued value the new selectedIds.  The model    *)
(* keeps the render's selectedIds and the queue of enqueued values apart,  *)
(* so that several calls made through the handlers of one render are       *)
(* behaviours of the model.                                                *)
(*                                                                         *)
(* The useListModals hook is modelled the same way, each of its two state  *)
(* values with the queue of its pending updates.                           *)
(*                                                                         *)
(* The bottom-sheet FilterSheet keeps its isRendered state the same way;   *)
(* the callbacks it hands to requestAnimationFrame run at animation frames, *)
(* which React does not order with its own re-render.                      *)
(*                                                                         *)
(* DataFilterUtils.applyFilters is a pure function; a caller applies it to *)
(* a data list and a filter list, and then to its own result.              *)
(***************************************************************************)
EXTENDS Integers, Sequences, FiniteSets, TLC

\* ------------------------------------------------------------------ bounds
\* setSelectedIds calls that may be pending before the hook re-renders
MaxPending == 2
\* length of the item lists handed to applyFilters
MaxItems == 2
\* updates of one useListModals state value that may be pending before the
\* hook re-renders
MaxModalPending == 2
\* calls of the FilterSheet ref methods in one behaviour
MaxSheetCalls == 3
\* length of the data lists handed to DataFilterUtils.applyFilters
MaxData == 2
\* length of the filter lists handed to DataFilterUtils.applyFilters
MaxFilters == 2

\* ------------------------------------------------------------------ inputs
\* a property that was not given in the config object
Undefined == "<undefined>"

\* identifier strings a caller may press; "" is an (unusual) identifier too
FilterIds == {"", "all", "active", "completed"}

\* the ids of config.options; the other identifiers of FilterIds are not in
\* the option list
ConfigOptionIds == {"all", "active"}

\* config.defaultFilterId as the caller may give it
ConfigDefaultFilterIds == {Undefined, "completed"}

\* config.singleSelect as the caller may give it
ConfigSingleSelects == {Undefined, "false"}

\* items are represented by their status field
Items == {"active", "completed"}

\* the predicates handed to applyFilters
FilterFns == {"statusEquals", "rejectAll"}

\* filterFn(item, filterId) for the predicates above
FilterFn(fn, item, filterId) ==
    CASE fn = "statusEquals" -> item = filterId
      [] fn = "rejectAll"    -> FALSE

ItemLists == UNION {[1..n -> Items] : n \in 0..MaxItems}

VARIABLES
    config,         \* the FilterConfig the hook was called with
    selectedIds,    \* the state value of the current render
    queue,          \* values given to setSelectedIds since that render
    sequentialIds,  \* history: the press rules applied call by call to the
                    \* up-to-date selection
    last,           \* history: the last handler call: the selectedIds it
                    \* read, the up-to-date selection before it, and the
                    \* kind of the call before it
    applied         \* history: the last applyFilters call and its result

vars == <<config, selectedIds, queue, sequentialIds, last, applied>>

VARIABLES
    filterModalVisible,  \* useListModals: the state values of the current
    sortModalVisible,    \* render
    filterModalQueue,    \* updates given to setFilterModalVisible and to
    sortModalQueue,      \* setSortModalVisible since that render
    modalLast            \* history: the last two useListModals calls and the
                         \* up-to-date flags before each of them

modalVars == <<filterModalVisible, sortModalVisible, filterModalQueue,
               sortModalQueue, modalLast>>

VARIABLES
    dataCall             \* the DataFilterUtils.applyFilters call in hand: its
                         \* arguments, its result, and the result of
                         \* applying the same filters to that result

dataVars == <<dataCall>>

VARIABLES
    isRendered,          \* FilterSheet: the state value of the current render;
                         \* the inner BottomSheet is mounted, and
                         \* internalRef.current set, exactly when it is true
    isRenderedQueued,    \* setIsRendered(true) was called since that render
    rafCallbacks,        \* the callbacks handed to requestAnimationFrame that
                         \* have not run yet, in the order they were handed
    innerCalls,          \* the methods called on the inner BottomSheet
    sheetHistory         \* history: the ref methods called on the FilterSheet

sheetVars == <<isRendered, isRenderedQueued, rafCallbacks, innerCalls,
               sheetHistory>>

\* a step of one hook or component leaves the state of the others alone
OthersThanListFilters == <<modalVars, dataVars, sheetVars>>

OthersThanListModals == <<vars, dataVars, sheetVars>>

OthersThanDataFilterUtils == <<vars, modalVars, sheetVars>>

OthersThanFilterSheet == <<vars, modalVars, dataVars>>

\* ------------------------------------------------- JavaScript array helpers
\* ids.includes(x)
Includes(ids, x) == \E i \in 1..Len(ids) : ids[i] = x

\* ids.filter((id) => id !== x)
RECURSIVE FilterNot(_, _)
FilterNot(ids, x) ==
    IF ids = <<>> THEN <<>>
    ELSE IF Head(ids) # x
         THEN <<Head(ids)>> \o FilterNot(Tail(ids), x)
         ELSE FilterNot(Tail(ids), x)

\* a JavaScript string is falsy exactly when it is empty
Truthy(s) == s # ""

\* ------------------------------------------------------------- FilterUtils
isActiveFilter(filterId, default) == filterId # default

\* selectedIds[0] || defaultFilterId : selectedIds[0] is undefined (falsy) on
\* an empty array
getActiveFilter(ids, default) ==
    IF Len(ids) > 0 /\ Truthy(ids[1]) THEN ids[1] ELSE default

FilterUtilsHasActiveFilter(ids, default) ==
    isActiveFilter(getActiveFilter(ids, default), default)

\* ---------------------------------------------------------- useListFilters
\* config.defaultFilterId || "all"
defaultFilterId ==
    IF config.defaultFilterId # Undefined /\ Truthy(config.defaultFilterId)
    THEN config.defaultFilterId
    ELSE "all"

\* config.singleSelect !== false
SingleSelectMode == config.singleSelect # "false"

activeFilter == getActiveFilter(selectedIds, defaultFilterId)

hasActiveFilter == FilterUtilsHasActiveFilter(selectedIds, defaultFilterId)

\* PressValue with the multi-select deselect branch setting newIds as it is
PressValueNoFallback(ids, filterId) ==
    IF SingleSelectMode
    THEN IF Includes(ids, filterId) /\ filterId # defaultFilterId
         THEN <<defaultFilterId>>
         ELSE <<filterId>>
    ELSE IF filterId = defaultFilterId
         THEN <<defaultFilterId>>
         ELSE IF Includes(ids, filterId)
              THEN FilterNot(ids, filterId)
              ELSE FilterNot(ids, defaultFilterId) \o <<filterId>>

\* PressValue with the default identifier toggled like every other one
PressValueDefaultToggles(ids, filterId) ==
    IF SingleSelectMode
    THEN IF Includes(ids, filterId)
         THEN <<defaultFilterId>>
         ELSE <<filterId>>
    ELSE IF Includes(ids, filterId)
         THEN LET newIds == FilterNot(ids, filterId)
              IN  IF Len(newIds) > 0 THEN newIds ELSE <<defaultFilterId>>
         ELSE ids \o <<filterId>>

\* PressValue with the multi-select select branch keeping the default
PressValueKeepsDefault(ids, filterId) ==
    IF SingleSelectMode
    THEN IF Includes(ids, filterId) /\ filterId # defaultFilterId
         THEN <<defaultFilterId>>
         ELSE <<filterId>>
    ELSE IF filterId = defaultFilterId
         THEN <<defaultFilterId>>
         ELSE IF Includes(ids, filterId)
              THEN LET newIds == FilterNot(ids, filterId)
                   IN  IF Len(newIds) > 0 THEN newIds ELSE <<defaultFilterId>>
              ELSE ids \o <<filterId>>

\* PressValue with the multi-select deselect branch going back to the
\* default, as the single-select one does
PressValueDeselectResets(ids, filterId) ==
    IF SingleSelectMode
    THEN IF Includes(ids, filterId) /\ filterId # defaultFilterId
         THEN <<defaultFilterId>>
         ELSE <<filterId>>
    ELSE IF filterId = defaultFilterId
         THEN <<defaultFilterId>>
         ELSE IF Includes(ids, filterId)
              THEN <<defaultFilterId>>
              ELSE FilterNot(ids, defaultFilterId) \o <<filterId>>

\* PressValue with the single-select branch adding to the selection
PressValueSingleAppends(ids, filterId) ==
    IF SingleSelectMode
    THEN IF Includes(ids, filterId) /\ filterId # defaultFilterId
         THEN <<defaultFilterId>>
         ELSE FilterNot(ids, defaultFilterId) \o <<filterId>>
    ELSE IF filterId = defaultFilterId
         THEN <<defaultFilterId>>
         ELSE IF Includes(ids, filterId)
              THEN LET newIds == FilterNot(ids, filterId)
                   IN  IF Len(newIds) > 0 THEN newIds ELSE <<defaultFilterId>>
              ELSE LET newIds == FilterNot(ids, defaultFilterId)
                   IN  newIds \o <<filterId>>

\* PressValue with identifiers that are not in config.options ignored
PressValueKnownOnly(ids, filterId) ==
    IF filterId \notin ConfigOptionIds
    THEN ids
    ELSE IF SingleSelectMode
    THEN IF Includes(ids, filterId) /\ filterId # defaultFilterId
         THEN <<defaultFilterId>>
         ELSE <<filterId>>
    ELSE IF filterId = defaultFilterId
         THEN <<defaultFilterId>>
         ELSE IF Includes(ids, filterId)
              THEN LET newIds == FilterNot(ids, filterId)
                   IN  IF Len(newIds) > 0 THEN newIds ELSE <<defaultFilterId>>
              ELSE LET newIds == FilterNot(ids, defaultFilterId)
                   IN  newIds \o <<filterId>>

\* PressValue with the multi-select branch never deselecting
PressValueNoDeselect(ids, filterId) ==
    IF SingleSelectMode
    THEN IF Includes(ids, filterId) /\ filterId # defaultFilterId
         THEN <<defaultFilterId>>
         ELSE <<filterId>>
    ELSE IF filterId = defaultFilterId
         THEN <<defaultFilterId>>
         ELSE FilterNot(ids, defaultFilterId) \o <<filterId>>

\* the value handleFilterPress(filterId) hands to setSelectedIds when the
\* selectedIds it reads is ids
PressValue(ids, filterId) ==
    IF SingleSelectMode
    THEN IF Includes(ids, filterId) /\ filterId # defaultFilterId
         THEN <<defaultFilterId>>
         ELSE <<filterId>>
    ELSE IF filterId = defaultFilterId
         THEN <<defaultFilterId>>
         ELSE IF Includes(ids, filterId)
              THEN LET newIds == FilterNot(ids, filterId)
                   IN  IF Len(newIds) > 0 THEN newIds ELSE <<defaultFilterId>>
              ELSE LET newIds == FilterNot(ids, defaultFilterId)
                   IN  newIds \o <<filterId>>

\* ClearValue with the selection emptied
ClearValueEmpty == <<>>

\* the value handleClearFilters() hands to setSelectedIds
ClearValue == <<defaultFilterId>>

\* the selection once the pending setSelectedIds calls are rendered
Pending == IF queue = <<>> THEN selectedIds ELSE queue[Len(queue)]

\* setSelectedIds(value): the update is enqueued, the render's value stays
setSelectedIds(value) ==
    /\ queue' = Append(queue, value)
    /\ UNCHANGED selectedIds

\* selectedIds.some((filterId) => filterFn(item, filterId)), which stops at
\* the first identifier that matches
RECURSIVE Some(_, _, _)
Some(ids, item, fn) ==
    IF ids = <<>> THEN FALSE
    ELSE IF FilterFn(fn, item, Head(ids)) THEN TRUE
         ELSE Some(Tail(ids), item, fn)

\* the number of times that call evaluates filterFn
RECURSIVE SomeCalls(_, _, _)
SomeCalls(ids, item, fn) ==
    IF ids = <<>> THEN 0
    ELSE IF FilterFn(fn, item, Head(ids)) THEN 1
         ELSE 1 + SomeCalls(Tail(ids), item, fn)

\* items.filter((item) => selectedIds.some(...))
RECURSIVE FilterItems(_, _, _)
FilterItems(items, ids, fn) ==
    IF items = <<>> THEN <<>>
    ELSE IF Some(ids, Head(items), fn)
         THEN <<Head(items)>> \o FilterItems(Tail(items), ids, fn)
         ELSE FilterItems(Tail(items), ids, fn)

RECURSIVE FilterCalls(_, _, _)
FilterCalls(items, ids, fn) ==
    IF items = <<>> THEN 0
    ELSE SomeCalls(ids, Head(items), fn) + FilterCalls(Tail(items), ids, fn)

\* applyFilters without the early return
applyFiltersAlwaysFilters(items, fn) == FilterItems(items, selectedIds, fn)

\* applyFilters(items, filterFn) of the current render
applyFilters(items, fn) ==
    IF ~hasActiveFilter THEN items
    ELSE FilterItems(items, selectedIds, fn)

\* the number of times applyFilters(items, filterFn) evaluates filterFn
applyFiltersCalls(items, fn) ==
    IF ~hasActiveFilter THEN 0
    ELSE FilterCalls(items, selectedIds, fn)

NoApply == [done |-> FALSE]

\* ----------------------------------------------------------- useListModals
\* setState(value) and setState((prev) => ...) as queued updates
ValueUpdate(value) == [kind |-> "value", value |-> value]

\* the updater (prev) => !prev
NotPrevUpdate == [kind |-> "updater"]

\* React applies the queued updates in order to the state value
RECURSIVE ApplyUpdates(_, _)
ApplyUpdates(value, updates) ==
    IF updates = <<>> THEN value
    ELSE ApplyUpdates(IF Head(updates).kind = "value"
                      THEN Head(updates).value
                      ELSE ~value,
                      Tail(updates))

\* the flags once the pending updates are rendered
PendingFilterModalVisible == ApplyUpdates(filterModalVisible, filterModalQueue)

PendingSortModalVisible == ApplyUpdates(sortModalVisible, sortModalQueue)

PendingModals ==
    [filter |-> PendingFilterModalVisible, sort |-> PendingSortModalVisible]

ModalsInit ==
    /\ filterModalVisible = FALSE
    /\ sortModalVisible = FALSE
    /\ filterModalQueue = <<>>
    /\ sortModalQueue = <<>>
    /\ modalLast = [op |-> "mount", prevOp |-> "mount",
                    before |-> [filter |-> FALSE, sort |-> FALSE],
                    beforePrev |-> [filter |-> FALSE, sort |-> FALSE]]

\* history of a useListModals call
ModalCalled(op) ==
    /\ modalLast' = [op |-> op, prevOp |-> modalLast.op,
                     before |-> PendingModals, beforePrev |-> modalLast.before]
    /\ UNCHANGED OthersThanListModals

setFilterModalVisible(update) ==
    /\ Len(filterModalQueue) < MaxModalPending
    /\ filterModalQueue' = Append(filterModalQueue, update)
    /\ UNCHANGED <<filterModalVisible, sortModalVisible, sortModalQueue>>

setSortModalVisible(update) ==
    /\ Len(sortModalQueue) < MaxModalPending
    /\ sortModalQueue' = Append(sortModalQueue, update)
    /\ UNCHANGED <<filterModalVisible, sortModalVisible, filterModalQueue>>

\* the toggle update written with the flag of the render
StaleToggleFilterUpdate == ValueUpdate(~filterModalVisible)

\* the update toggleFilterModal hands to setFilterModalVisible
ToggleFilterUpdate == NotPrevUpdate

\* the update toggleSortModal hands to setSortModalVisible
ToggleSortUpdate == NotPrevUpdate

openFilterModal ==
    setFilterModalVisible(ValueUpdate(TRUE)) /\ ModalCalled("openFilterModal")

closeFilterModal ==
    setFilterModalVisible(ValueUpdate(FALSE)) /\ ModalCalled("closeFilterModal")

toggleFilterModal ==
    setFilterModalVisible(ToggleFilterUpdate) /\ ModalCalled("toggleFilterModal")

openSortModal ==
    setSortModalVisible(ValueUpdate(TRUE)) /\ ModalCalled("openSortModal")

closeSortModal ==
    setSortModalVisible(ValueUpdate(FALSE)) /\ ModalCalled("closeSortModal")

toggleSortModal ==
    setSortModalVisible(ToggleSortUpdate) /\ ModalCalled("toggleSortModal")

\* React re-runs the hook: the queued updates of both state values are
\* applied
RenderModals ==
    /\ filterModalQueue # <<>> \/ sortModalQueue # <<>>
    /\ filterModalVisible' = ApplyUpdates(filterModalVisible, filterModalQueue)
    /\ sortModalVisible' = ApplyUpdates(sortModalVisible, sortModalQueue)
    /\ filterModalQueue' = <<>>
    /\ sortModalQueue' = <<>>
    /\ UNCHANGED modalLast
    /\ UNCHANGED OthersThanListModals

\* -------------------------------------------------------------- FilterSheet
\* the arguments of snapToIndex and snapToPosition
SnapIndexes == {0, 1}

SnapPositions == {"50%"}

\* a call of a BottomSheetRef method
SheetCall(name, index, position) ==
    [name |-> name, index |-> index, position |-> position]

ExpandCall == SheetCall("expand", 0, "")

CollapseCall == SheetCall("collapse", 0, "")

CloseCall == SheetCall("close", 0, "")

SnapToIndexCall(index) == SheetCall("snapToIndex", index, "")

SnapToPositionCall(position) == SheetCall("snapToPosition", 0, position)

SheetInit ==
    /\ isRendered = FALSE
    /\ isRenderedQueued = FALSE
    /\ rafCallbacks = <<>>
    /\ innerCalls = <<>>
    /\ sheetHistory = [calls |-> 0, opened |-> FALSE, wasRendered |-> FALSE,
                       last |-> "mount", deferred |-> <<>>]

\* a ref method was called
SheetCalled(call, opens, defers) ==
    /\ sheetHistory.calls < MaxSheetCalls
    /\ sheetHistory' =
           [sheetHistory EXCEPT
               !.calls = @ + 1,
               !.opened = @ \/ opens,
               !.last = call.name,
               !.deferred = IF defers THEN Append(@, call) ELSE @]
    /\ UNCHANGED OthersThanFilterSheet

\* internalRef.current?.method(): the call reaches the inner sheet when it
\* is mounted and is dropped otherwise
CallsAfter(calls, call) == IF isRendered THEN Append(calls, call) ELSE calls

\* snapToIndex, snapToPosition and expand: ensureRendered() and, when the
\* sheet was not rendered, two nested requestAnimationFrame before the call
\* of the inner method
Open(call) ==
    IF ~isRendered
    THEN /\ isRenderedQueued' = TRUE
         /\ rafCallbacks' = Append(rafCallbacks, [frames |-> 2, call |-> call])
         /\ UNCHANGED <<isRendered, innerCalls>>
         /\ SheetCalled(call, TRUE, TRUE)
    ELSE /\ innerCalls' = CallsAfter(innerCalls, call)
         /\ UNCHANGED <<isRendered, isRenderedQueued, rafCallbacks>>
         /\ SheetCalled(call, TRUE, FALSE)

\* collapse and close: forwarded if (isRendered), nothing otherwise
Forward(call) ==
    /\ innerCalls' = IF isRendered THEN CallsAfter(innerCalls, call)
                     ELSE innerCalls
    /\ UNCHANGED <<isRendered, isRenderedQueued, rafCallbacks>>
    /\ SheetCalled(call, FALSE, FALSE)

expand == Open(ExpandCall)

snapToIndex(index) == Open(SnapToIndexCall(index))

snapToPosition(position) == Open(SnapToPositionCall(position))

collapse == Forward(CollapseCall)

close == Forward(CloseCall)

\* React re-runs the component with isRendered true: the inner BottomSheet
\* is mounted and internalRef.current set
RenderSheet ==
    /\ isRenderedQueued
    /\ isRendered' = TRUE
    /\ isRenderedQueued' = FALSE
    /\ sheetHistory' = [sheetHistory EXCEPT !.wasRendered = TRUE]
    /\ UNCHANGED <<rafCallbacks, innerCalls>>
    /\ UNCHANGED OthersThanFilterSheet

\* the callbacks that wait for another frame after this one
RECURSIVE NextFrameCallbacks(_)
NextFrameCallbacks(callbacks) ==
    IF callbacks = <<>> THEN <<>>
    ELSE IF Head(callbacks).frames = 2
         THEN <<[frames |-> 1, call |-> Head(callbacks).call]>>
                  \o NextFrameCallbacks(Tail(callbacks))
         ELSE NextFrameCallbacks(Tail(callbacks))

\* the inner calls after the callbacks due at this frame have run
RECURSIVE RunDueCallbacks(_, _)
RunDueCallbacks(callbacks, calls) ==
    IF callbacks = <<>> THEN calls
    ELSE IF Head(callbacks).frames = 1
         THEN RunDueCallbacks(Tail(callbacks), CallsAfter(calls, Head(callbacks).call))
         ELSE RunDueCallbacks(Tail(callbacks), calls)

\* an animation frame: every callback handed to requestAnimationFrame before
\* it runs; an outer callback hands its inner one to the next frame
AnimationFrame ==
    /\ rafCallbacks # <<>>
    /\ rafCallbacks' = NextFrameCallbacks(rafCallbacks)
    /\ innerCalls' = RunDueCallbacks(rafCallbacks, innerCalls)
    /\ UNCHANGED <<isRendered, isRenderedQueued, sheetHistory>>
    /\ UNCHANGED OthersThanFilterSheet

\* --------------------------------------------------------- DataFilterUtils
\* JavaScript values: numbers, strings (sequences of characters), arrays and
\* undefined
Num(n) == [t |-> "number", n |-> n]

Str(chars) == [t |-> "string", s |-> chars]

Arr(values) == [t |-> "array", a |-> values]

Undef == [t |-> "undefined"]

\* (item as any)[field]: undefined when the item has no such property
Field(item, field) == IF field \in DOMAIN item THEN item[field] ELSE Undef

\* x === y, for numbers, strings and undefined
StrictEquals(x, y) ==
    /\ x.t = y.t
    /\ CASE x.t = "number"    -> x.n = y.n
         [] x.t = "string"    -> x.s = y.s
         [] x.t = "undefined" -> TRUE

\* x < y and x <= y, for numbers and undefined: a comparison with undefined
\* is false
LessThan(x, y) ==
    CASE x.t = "undefined" \/ y.t = "undefined" -> FALSE
      [] x.t = "number" /\ y.t = "number"       -> x.n < y.n

LessOrEqual(x, y) ==
    CASE x.t = "undefined" \/ y.t = "undefined" -> FALSE
      [] x.t = "number" /\ y.t = "number"       -> x.n <= y.n

\* the decimal digits
DigitChars == <<"0", "1", "2", "3", "4", "5", "6", "7", "8", "9">>

\* String(x), for strings, undefined and the numbers 0..9
StringOf(x) ==
    CASE x.t = "string"    -> x.s
      [] x.t = "undefined" -> <<"u", "n", "d", "e", "f", "i", "n", "e", "d">>
      [] x.t = "number"    -> <<DigitChars[x.n + 1]>>

\* toLowerCase(), for the letters the inputs use
LowerChar(c) ==
    CASE c = "A" -> "a"
      [] c = "B" -> "b"
      [] OTHER   -> c

ToLowerCase(chars) == [i \in 1..Len(chars) |-> LowerChar(chars[i])]

\* hay.includes(needle) on strings
StringIncludes(hay, needle) ==
    \E i \in 0..(Len(hay) - Len(needle)) :
        SubSeq(hay, i + 1, i + Len(needle)) = needle

\* values.includes(x) on arrays
ArrayIncludes(values, x) ==
    \E i \in 1..Len(values) : StrictEquals(values[i], x)

\* the switch on filter.operator
Matches(item, filter) ==
    LET value == Field(item, filter.field) IN
    CASE filter.operator = "eq"    -> StrictEquals(value, filter.value)
      [] filter.operator = "neq"   -> ~StrictEquals(value, filter.value)
      [] filter.operator = "gt"    -> LessThan(filter.value, value)
      [] filter.operator = "gte"   -> LessOrEqual(filter.value, value)
      [] filter.operator = "lt"    -> LessThan(value, filter.value)
      [] filter.operator = "lte"   -> LessOrEqual(value, filter.value)
      [] filter.operator = "like"  ->
            StringIncludes(StringOf(value), StringOf(filter.value))
      [] filter.operator = "ilike" ->
            StringIncludes(ToLowerCase(StringOf(value)),
                           ToLowerCase(StringOf(filter.value)))
      [] filter.operator = "in"    ->
            filter.value.t = "array" /\ ArrayIncludes(filter.value.a, value)
      [] OTHER                     -> TRUE

\* filters.some(...) in the place of filters.every(...)
RECURSIVE SomeFilter(_, _)
SomeFilter(item, filters) ==
    IF filters = <<>> THEN FALSE
    ELSE IF Matches(item, Head(filters)) THEN TRUE
         ELSE SomeFilter(item, Tail(filters))

\* filters.every((filter) => ...)
RECURSIVE Every(_, _)
Every(item, filters) ==
    IF filters = <<>> THEN TRUE
    ELSE IF ~Matches(item, Head(filters)) THEN FALSE
         ELSE Every(item, Tail(filters))

\* data.filter((item) => filters.every(...))
RECURSIVE FilterData(_, _)
FilterData(data, filters) ==
    IF data = <<>> THEN <<>>
    ELSE IF Every(Head(data), filters)
         THEN <<Head(data)>> \o FilterData(Tail(data), filters)
         ELSE FilterData(Tail(data), filters)

\* the filters argument: a list, or null/undefined
NoFilters == [missing |-> TRUE, list |-> <<>>]

FilterList(list) == [missing |-> FALSE, list |-> list]

\* DataFilterUtils.applyFilters(data, filters)
DataFilterUtilsApplyFilters(data, filters) ==
    IF filters.missing \/ Len(filters.list) = 0
    THEN data
    ELSE FilterData(data, filters.list)

\* the items of the data lists
DataItems ==
    { [name |-> Str(<<"a", "b">>), n |-> Num(1)],
      [name |-> Str(<<"B">>), n |-> Num(2)],
      [name |-> Str(<<"a">>)] }

\* the conditions of the filter lists; "between" is no operator of
\* FilterCondition
DataConditions ==
    { [field |-> "n", operator |-> "eq", value |-> Num(1)],
      [field |-> "n", operator |-> "neq", value |-> Num(1)],
      [field |-> "n", operator |-> "gt", value |-> Num(1)],
      [field |-> "n", operator |-> "gte", value |-> Num(2)],
      [field |-> "n", operator |-> "lt", value |-> Num(2)],
      [field |-> "n", operator |-> "lte", value |-> Num(1)],
      [field |-> "name", operator |-> "like", value |-> Str(<<"a">>)],
      [field |-> "name", operator |-> "ilike", value |-> Str(<<"b">>)],
      [field |-> "n", operator |-> "in", value |-> Arr(<<Num(2), Num(3)>>)],
      [field |-> "n", operator |-> "in", value |-> Num(2)],
      [field |-> "n", operator |-> "between", value |-> Num(1)] }

DataLists == UNION {[1..n -> DataItems] : n \in 0..MaxData}

FilterArguments ==
    {NoFilters} \cup
    {FilterList(list) : list \in UNION {[1..n -> DataConditions] : n \in 0..MaxFilters}}

NoDataCall == [state |-> "none"]

DataInit == dataCall = NoDataCall

\* a caller applies the filters to a data list
CallDataApplyFilters ==
    /\ dataCall = NoDataCall
    /\ \E data \in DataLists, filters \in FilterArguments :
           dataCall' = [state |-> "applied", data |-> data, filters |-> filters,
                        result |-> DataFilterUtilsApplyFilters(data, filters)]
    /\ UNCHANGED OthersThanDataFilterUtils

\* and applies the same filters to the result
ReapplyDataFilters ==
    /\ dataCall.state = "applied"
    /\ dataCall' = [state |-> "reapplied", data |-> dataCall.data,
                    filters |-> dataCall.filters, result |-> dataCall.result,
                    again |-> DataFilterUtilsApplyFilters(dataCall.result,
                                                          dataCall.filters)]
    /\ UNCHANGED OthersThanDataFilterUtils

\* the caller is done with the results
DropDataCall ==
    /\ dataCall.state \in {"applied", "reapplied"}
    /\ dataCall' = NoDataCall
    /\ UNCHANGED OthersThanDataFilterUtils

\* ---------------------------------------------------------- useListFilters
Init ==
    /\ config \in [defaultFilterId : ConfigDefaultFilterIds,
                   singleSelect : ConfigSingleSelects]
    /\ selectedIds = <<defaultFilterId>>
    /\ queue = <<>>
    /\ sequentialIds = <<defaultFilterId>>
    /\ last = [op |-> "mount", prevOp |-> "mount", filterId |-> "",
               read |-> <<>>, before |-> <<>>]
    /\ applied = NoApply
    /\ ModalsInit
    /\ DataInit
    /\ SheetInit

handleFilterPress(filterId) ==
    /\ Len(queue) < MaxPending
    /\ setSelectedIds(PressValue(selectedIds, filterId))
    /\ sequentialIds' = PressValue(sequentialIds, filterId)
    /\ last' = [op |-> "press", prevOp |-> last.op, filterId |-> filterId,
                read |-> selectedIds, before |-> Pending]
    /\ applied' = NoApply
    /\ UNCHANGED config
    /\ UNCHANGED OthersThanListFilters

handleClearFilters ==
    /\ Len(queue) < MaxPending
    /\ setSelectedIds(ClearValue)
    /\ sequentialIds' = ClearValue
    /\ last' = [op |-> "clear", prevOp |-> last.op, filterId |-> "",
                read |-> selectedIds, before |-> Pending]
    /\ applied' = NoApply
    /\ UNCHANGED config
    /\ UNCHANGED OthersThanListFilters

\* React re-runs the hook: every queued value replaces the state in turn, so
\* the last one is the selectedIds of the new render
Render ==
    /\ queue # <<>>
    /\ selectedIds' = queue[Len(queue)]
    /\ queue' = <<>>
    /\ applied' = NoApply
    /\ UNCHANGED <<config, sequentialIds, last>>
    /\ UNCHANGED OthersThanListFilters

\* a caller filters a list with the applyFilters of the current render
ApplyFilters(items, fn) ==
    /\ applied' = [done |-> TRUE, items |-> items, filterFn |-> fn,
                   result |-> applyFilters(items, fn),
                   calls |-> applyFiltersCalls(items, fn)]
    /\ UNCHANGED <<config, selectedIds, queue, sequentialIds, last>>
    /\ UNCHANGED OthersThanListFilters

Next ==
    \/ \E filterId \in FilterIds : handleFilterPress(filterId)
    \/ handleClearFilters
    \/ Render
    \/ \E items \in ItemLists, fn \in FilterFns : ApplyFilters(items, fn)

Spec == Init /\ [][Next]_vars

\* the useListModals hook alone
NextModals ==
    \/ openFilterModal
    \/ closeFilterModal
    \/ toggleFilterModal
    \/ openSortModal
    \/ closeSortModal
    \/ toggleSortModal
    \/ RenderModals

SpecModals == Init /\ [][NextModals]_modalVars

\* the FilterSheet alone, beside a hook with the default config
InitSheet ==
    /\ Init
    /\ config = [defaultFilterId |-> Undefined, singleSelect |-> Undefined]

NextSheet ==
    \/ expand
    \/ \E index \in SnapIndexes : snapToIndex(index)
    \/ \E position \in SnapPositions : snapToPosition(position)
    \/ collapse
    \/ close
    \/ RenderSheet
    \/ AnimationFrame

SpecSheet == InitSheet /\ [][NextSheet]_sheetVars

\* DataFilterUtils alone, beside a hook with the default config
InitData ==
    /\ Init
    /\ config = [defaultFilterId |-> Undefined, singleSelect |-> Undefined]

NextData ==
    \/ CallDataApplyFilters
    \/ ReapplyDataFilters
    \/ DropDataCall

SpecData == InitData /\ [][NextData]_dataVars

\* ---------------------------------------------------------------- claims
\* the identifiers of ids other than x, in their order
Without(ids, x) == SelectSeq(ids, LAMBDA id : id # x)

\* C1: after any sequence of handleFilterPress and handleClearFilters calls,
\* in either mode, selectedIds is never empty: neither the value of a render
\* nor a value handed to setSelectedIds
C1_SelectedIdsNeverEmpty ==
    /\ selectedIds # <<>>
    /\ \A i \in 1..Len(queue) : queue[i] # <<>>

\* the last selected identifier of a multi-select selection was deselected
C1_Witness ==
    /\ ~SingleSelectMode
    /\ last.op = "press"
    /\ last.filterId # defaultFilterId
    /\ last.read = <<last.filterId>>
    /\ Pending = <<defaultFilterId>>

\* C2: once the hook has re-rendered, selectedIds is the result of applying
\* the press rules one call at a time to the up-to-date selection, also when
\* several calls were made through the handlers of one render
C2_CallsTakeEffectInTurn ==
    queue = <<>> => selectedIds = sequentialIds

\* C3: in either mode, handleFilterPress(defaultFilterId) makes the selection
\* exactly [defaultFilterId]
C3_PressDefaultResets ==
    (last.op = "press" /\ last.filterId = defaultFilterId)
        => Pending = <<defaultFilterId>>

\* the default was pressed while two identifiers were selected, and rendered
C3_Witness ==
    /\ ~SingleSelectMode
    /\ last.op = "press"
    /\ last.filterId = defaultFilterId
    /\ Len(last.read) >= 2
    /\ queue = <<>>
    /\ selectedIds = <<defaultFilterId>>

\* C4: in single-select mode, pressing the identifier that is the current
\* selection, when it is not the default, makes the selection
\* [defaultFilterId], so that pressing a non-default identifier twice in a row
\* ends in [defaultFilterId]; pressing any other identifier x makes it [x]
C4_SingleSelectPress ==
    (SingleSelectMode /\ last.op = "press")
        => Pending = IF last.before = <<last.filterId>>
                        /\ last.filterId # defaultFilterId
                     THEN <<defaultFilterId>>
                     ELSE <<last.filterId>>

\* the same rule, for the selectedIds of the render whose handler was called
C4_SingleSelectPressOfRender ==
    (SingleSelectMode /\ last.op = "press")
        => Pending = IF last.read = <<last.filterId>>
                        /\ last.filterId # defaultFilterId
                     THEN <<defaultFilterId>>
                     ELSE <<last.filterId>>

\* C5: in multi-select mode, pressing a non-default identifier that is not in
\* selectedIds makes the selection the previous selectedIds without the
\* default, in their order, followed by the pressed identifier
C5_MultiSelectAppends ==
    (/\ ~SingleSelectMode
     /\ last.op = "press"
     /\ last.filterId # defaultFilterId
     /\ ~(\E i \in 1..Len(last.read) : last.read[i] = last.filterId))
        => Pending = Without(last.read, defaultFilterId) \o <<last.filterId>>

\* a third identifier was added to two selected ones
C5_Witness ==
    /\ ~SingleSelectMode
    /\ last.op = "press"
    /\ last.filterId # defaultFilterId
    /\ Len(last.read) = 2
    /\ ~(\E i \in 1..Len(last.read) : last.read[i] = last.filterId)
    /\ Len(Pending) = 3

\* the default was stripped when the first identifier was selected
C5_WitnessDefaultStripped ==
    /\ ~SingleSelectMode
    /\ last.op = "press"
    /\ last.filterId # defaultFilterId
    /\ last.read = <<defaultFilterId>>
    /\ Pending = <<last.filterId>>

\* C6: in multi-select mode, pressing a non-default identifier that is in
\* selectedIds removes it, the others keeping their order, and the selection
\* is [defaultFilterId] when nothing remains
C6_MultiSelectRemoves ==
    (/\ ~SingleSelectMode
     /\ last.op = "press"
     /\ last.filterId # defaultFilterId
     /\ \E i \in 1..Len(last.read) : last.read[i] = last.filterId)
        => Pending = IF Without(last.read, last.filterId) = <<>>
                     THEN <<defaultFilterId>>
                     ELSE Without(last.read, last.filterId)

\* the middle one of three selected identifiers was deselected
C6_Witness ==
    /\ ~SingleSelectMode
    /\ last.op = "press"
    /\ Len(last.read) = 3
    /\ last.read[2] = last.filterId
    /\ Pending = <<last.read[1], last.read[3]>>

\* C7: handleClearFilters() makes the selection exactly [defaultFilterId] in
\* either mode, and a clear that follows a clear leaves the selection as it
\* was
C7_ClearResets ==
    last.op = "clear"
        => /\ Pending = <<defaultFilterId>>
           /\ last.prevOp = "clear" => Pending = last.before

\* two selected identifiers were cleared by two clears in a row
C7_Witness ==
    /\ ~SingleSelectMode
    /\ last.op = "clear"
    /\ last.prevOp = "clear"
    /\ Len(selectedIds) = 2
    /\ Len(queue) = 2

\* C8: activeFilter is the first element of selectedIds, and is
\* defaultFilterId only when selectedIds is empty
C8_ActiveFilterIsFirst ==
    /\ selectedIds # <<>> => activeFilter = selectedIds[1]
    /\ selectedIds = <<>> => activeFilter = defaultFilterId

\* C9: hasActiveFilter is true exactly when selectedIds holds an identifier
\* other than defaultFilterId
C9_HasActiveFilterIffNonDefault ==
    hasActiveFilter
        <=> \E i \in 1..Len(selectedIds) : selectedIds[i] # defaultFilterId

\* the items that some selected identifier matches, in their order
MatchedItems(items, fn) ==
    SelectSeq(items, LAMBDA item :
        \E i \in 1..Len(selectedIds) : FilterFn(fn, item, selectedIds[i]))

\* C10: when a filter is active (an identifier other than the default is
\* selected), applyFilters returns exactly the items that at least one
\* selected identifier matches, in their order
C10_ApplyFiltersUnion ==
    (/\ applied.done
     /\ \E i \in 1..Len(selectedIds) : selectedIds[i] # defaultFilterId)
        => applied.result = MatchedItems(applied.items, applied.filterFn)

\* the same, when hasActiveFilter is true
C10_ApplyFiltersUnionWhenFlagged ==
    (applied.done /\ hasActiveFilter)
        => applied.result = MatchedItems(applied.items, applied.filterFn)

\* C11: whenever selectedIds is [defaultFilterId], applyFilters returns the
\* items unchanged whatever the predicate, and does not evaluate it
C11_DefaultShortCircuit ==
    (applied.done /\ selectedIds = <<defaultFilterId>>)
        => /\ applied.result = applied.items
           /\ applied.calls = 0

\* after presses that ended in the default again, two items were filtered
\* with the predicate that rejects every item
C11_Witness ==
    /\ applied.done
    /\ selectedIds = <<defaultFilterId>>
    /\ last.op = "press"
    /\ last.read # <<defaultFilterId>>
    /\ applied.filterFn = "rejectAll"
    /\ Len(applied.items) = 2
    /\ applied.result = applied.items

\* C12: in single-select mode selectedIds has exactly one element, in every
\* render and in every value handed to setSelectedIds
C12_SingleSelectOneElement ==
    SingleSelectMode
        => /\ Len(selectedIds) = 1
           /\ \A i \in 1..Len(queue) : Len(queue[i]) = 1

\* a non-default identifier was pressed while another one was selected
C12_Witness ==
    /\ SingleSelectMode
    /\ last.op = "press"
    /\ Len(last.read) = 1
    /\ last.read[1] # defaultFilterId
    /\ last.filterId # defaultFilterId
    /\ last.filterId # last.read[1]
    /\ queue = <<>>
    /\ selectedIds = <<last.filterId>>

\* C13: handleFilterPress can be called with every identifier, in
\* config.options or not, in every state, and an identifier that was not in
\* the selectedIds the call read is in the selection it sets
C13_PressIsTotal ==
    /\ \A filterId \in FilterIds :
           Len(queue) < MaxPending => ENABLED handleFilterPress(filterId)
    /\ (last.op = "press"
        /\ ~(\E i \in 1..Len(last.read) : last.read[i] = last.filterId))
           => \E i \in 1..Len(Pending) : Pending[i] = last.filterId

\* an identifier that is not in config.options was pressed and is selected
C13_Witness ==
    /\ last.op = "press"
    /\ last.filterId \notin ConfigOptionIds
    /\ last.filterId # defaultFilterId
    /\ ~(\E i \in 1..Len(last.read) : last.read[i] = last.filterId)
    /\ queue = <<>>
    /\ \E i \in 1..Len(selectedIds) : selectedIds[i] = last.filterId

\* no identifier twice, and the default only as the whole selection
WellFormedSelection(ids) ==
    /\ \A i, j \in 1..Len(ids) : ids[i] = ids[j] => i = j
    /\ (\E i \in 1..Len(ids) : ids[i] = defaultFilterId)
           => ids = <<defaultFilterId>>

\* C14: in multi-select mode selectedIds holds no identifier twice, and holds
\* defaultFilterId only when it is exactly [defaultFilterId]
C14_MultiSelectWellFormed ==
    ~SingleSelectMode
        => /\ WellFormedSelection(selectedIds)
           /\ \A i \in 1..Len(queue) : WellFormedSelection(queue[i])

\* three identifiers are selected and one of them was pressed last
C14_Witness ==
    /\ ~SingleSelectMode
    /\ Len(selectedIds) = 3
    /\ last.op = "press"
    /\ queue = <<>>

\* the last call was one of the filter-modal operations
LastOnFilterModal ==
    modalLast.op \in {"openFilterModal", "closeFilterModal", "toggleFilterModal"}

\* the last call was one of the sort-modal operations
LastOnSortModal ==
    modalLast.op \in {"openSortModal", "closeSortModal", "toggleSortModal"}

\* C16: both flags start false; open sets the flag of its modal, close
\* resets it, toggle negates it, two toggles in a row restore it, also when
\* both are issued before a re-render; an operation on one modal leaves the
\* flag of the other modal as it was
C16_ModalFlags ==
    /\ modalLast.op = "mount"
           => ~filterModalVisible /\ ~sortModalVisible
    /\ modalLast.op = "openFilterModal" => PendingFilterModalVisible
    /\ modalLast.op = "closeFilterModal" => ~PendingFilterModalVisible
    /\ modalLast.op = "toggleFilterModal"
           => PendingFilterModalVisible = ~modalLast.before.filter
    /\ (modalLast.op = "toggleFilterModal" /\ modalLast.prevOp = "toggleFilterModal")
           => PendingFilterModalVisible = modalLast.beforePrev.filter
    /\ LastOnFilterModal => PendingSortModalVisible = modalLast.before.sort
    /\ modalLast.op = "openSortModal" => PendingSortModalVisible
    /\ modalLast.op = "closeSortModal" => ~PendingSortModalVisible
    /\ modalLast.op = "toggleSortModal"
           => PendingSortModalVisible = ~modalLast.before.sort
    /\ (modalLast.op = "toggleSortModal" /\ modalLast.prevOp = "toggleSortModal")
           => PendingSortModalVisible = modalLast.beforePrev.sort
    /\ LastOnSortModal => PendingFilterModalVisible = modalLast.before.filter
    /\ (filterModalQueue = <<>> /\ sortModalQueue = <<>>)
           => /\ filterModalVisible = PendingFilterModalVisible
              /\ sortModalVisible = PendingSortModalVisible

\* the filter modal was toggled twice before a re-render while the sort
\* modal was open, and both flags are as before
C16_Witness ==
    /\ modalLast.op = "toggleFilterModal"
    /\ modalLast.prevOp = "toggleFilterModal"
    /\ Len(filterModalQueue) = 2
    /\ sortModalVisible
    /\ sortModalQueue = <<>>
    /\ filterModalVisible
    /\ PendingFilterModalVisible

\* the operators of FilterCondition
KnownOperators ==
    {"eq", "neq", "gt", "gte", "lt", "lte", "like", "ilike", "in"}

\* the items of data that satisfy every condition of list, in their order
SatisfyingAll(data, list) ==
    SelectSeq(data, LAMBDA item :
        \A i \in 1..Len(list) :
            list[i].operator \in KnownOperators => Matches(item, list[i]))

\* C17: DataFilterUtils.applyFilters returns data unchanged when filters is
\* empty or missing, and otherwise exactly the items that satisfy every
\* condition, in their order, a condition with an unrecognised operator
\* being satisfied by every item; applying the same filters to the result
\* changes nothing
C17_DataApplyFilters ==
    /\ dataCall.state \in {"applied", "reapplied"}
           => dataCall.result =
                  IF dataCall.filters.missing \/ dataCall.filters.list = <<>>
                  THEN dataCall.data
                  ELSE SatisfyingAll(dataCall.data, dataCall.filters.list)
    /\ dataCall.state = "reapplied" => dataCall.again = dataCall.result

\* two conditions, one of them with an unrecognised operator, kept the
\* second of two items, and were applied again
C17_Witness ==
    /\ dataCall.state = "reapplied"
    /\ Len(dataCall.filters.list) = 2
    /\ \E i \in 1..2 : dataCall.filters.list[i].operator \notin KnownOperators
    /\ Len(dataCall.data) = 2
    /\ dataCall.result = <<dataCall.data[2]>>
    /\ dataCall.again = dataCall.result

\* the inner BottomSheet is rendered only after expand, snapToIndex or
\* snapToPosition was called, stays rendered once it is, and collapse and
\* close before the first of those calls neither reach it nor render it
C15_LazyRendering ==
    /\ isRendered => sheetHistory.opened
    /\ sheetHistory.wasRendered => isRendered
    /\ ~sheetHistory.opened
           => /\ ~isRendered
              /\ ~isRenderedQueued
              /\ rafCallbacks = <<>>
              /\ innerCalls = <<>>

\* collapse was called on a sheet that was never opened
C15_WitnessCollapseBeforeOpen ==
    /\ ~sheetHistory.opened
    /\ sheetHistory.last = "collapse"
    /\ sheetHistory.calls = 2

\* every expand that was called on a sheet not yet rendered has reached the
\* inner sheet once the sheet is mounted and no callback is left to run
C15_DeferredExpandForwarded ==
    (isRendered /\ ~isRenderedQueued /\ rafCallbacks = <<>>)
        => \A i \in 1..Len(sheetHistory.deferred) :
               sheetHistory.deferred[i].name = "expand"
                   => \E j \in 1..Len(innerCalls) : innerCalls[j] = ExpandCall

\* C15: the FilterSheet renders its inner BottomSheet lazily (not before the
\* first expand, snapToIndex or snapToPosition, and from then on for good),
\* collapse and close before the first open do nothing, and an expand called
\* on a sheet not yet rendered is forwarded to the inner sheet after it has
\* mounted
C15_LazySheetForwardsExpand ==
    C15_LazyRendering /\ C15_DeferredExpandForwarded

\* an expand called on a sheet not yet rendered has reached the mounted sheet
C15_WitnessForwarded ==
    /\ isRendered
    /\ rafCallbacks = <<>>
    /\ Len(sheetHistory.deferred) = 1
    /\ sheetHistory.deferred[1] = ExpandCall
    /\ innerCalls = <<ExpandCall>>

=============================================================================
